---- MODULE Spec2Model ----
(***************************************************************************)
(* Model of the configuration package of the GNSS viewer:                  *)
(*   src/config/settings.py   the settings module: five dataclasses whose  *)
(*                            field defaults are computed from the process *)
(*                            environment while the class bodies run, a    *)
(*                            sixth dataclass holding the satellite-system *)
(*                            registry, and six module-level instances;    *)
(*   src/config/constants.py  the static lookup tables.                    *)
(*                                                                         *)
(* A Python str is a sequence of one-character strings, so that lower(),   *)
(* upper(), split(), int() and float() are computed character by           *)
(* character (a character outside ASCII is named "U+XXXX").  A Python     *)
(* value is a record [t |-> type name, v |-> value].                       *)
(* Executing the settings module is modelled one top-level statement at a  *)
(* time (ExecStatement); the constants module one assignment at a time     *)
(* (ExecAssignment), followed by subscriptions of its tables.              *)
(***************************************************************************)
EXTENDS Integers, Sequences, FiniteSets, TLC

VARIABLES
    env,        \* os.environ: a function from the names that are set to str
    pc,         \* index in Statements of the next statement of settings.py
    status,     \* "loading", "loaded" or "failed": the import of settings.py
    error,      \* the exception that ended the import, or NoError
    classes,    \* class name -> class attributes (the field defaults)
    instances,  \* module-level name -> the dataclass instance bound to it
    reads,      \* the environment variables read so far, in order
    tables,     \* constants.py: table name -> the dict bound to it
    cpc,        \* index in Assignments of the next statement of constants.py
    result      \* the outcome of the last subscription of a constants table

vars == <<env, pc, status, error, classes, instances, reads, tables, cpc, result>>

settingsVars == <<env, pc, status, error, classes, instances, reads>>

constantsVars == <<tables, cpc, result>>

(***************************************************************************)
(* Bounds of the model.                                                    *)
(***************************************************************************)
\* At most this many environment variables are set in an initial state.
MaxSet == 1

\* Numeric keys 0..MaxCode are tried against the code tables (0x28 = 40 is
\* the largest key of UBX_CLASSES).
MaxCode == 41

(***************************************************************************)
(* Python values.                                                          *)
(***************************************************************************)
Str(s) == [t |-> "str", v |-> s]

IntV(n) == [t |-> "int", v |-> n]

BoolV(b) == [t |-> "bool", v |-> b]

ListV(xs) == [t |-> "list", v |-> xs]

DictV(d) == [t |-> "dict", v |-> d]

\* A float is kept as the decimal m * 10^e it was written as, normalised
\* (m not divisible by 10, zero as 0 * 10^0), or as inf / -inf / nan.
FloatV(sp, m, e) == [t |-> "float", v |-> [sp |-> sp, m |-> m, e |-> e]]

None == [t |-> "NoneType", v |-> <<>>]

EmptyMap == [x \in {} |-> None]

Min(S) == CHOOSE x \in S : \A y \in S : x <= y

Max(S) == CHOOSE x \in S : \A y \in S : x >= y

(***************************************************************************)
(* str methods and the numeric constructors, as CPython computes them on   *)
(* ASCII text.                                                             *)
(***************************************************************************)
LowerCase == <<"a","b","c","d","e","f","g","h","i","j","k","l","m",
               "n","o","p","q","r","s","t","u","v","w","x","y","z">>

UpperCase == <<"A","B","C","D","E","F","G","H","I","J","K","L","M",
               "N","O","P","Q","R","S","T","U","V","W","X","Y","Z">>

Digits == <<"0","1","2","3","4","5","6","7","8","9">>

Whitespace == {" ", "\t", "\n", "\r", "\f"}

IsDigit(c) == \E i \in 1..Len(Digits) : Digits[i] = c

DigitVal(c) == (CHOOSE i \in 1..Len(Digits) : Digits[i] = c) - 1

ToLower(c) ==
    IF \E i \in 1..Len(UpperCase) : UpperCase[i] = c
    THEN LowerCase[CHOOSE i \in 1..Len(UpperCase) : UpperCase[i] = c]
    ELSE c

ToUpper(c) ==
    IF \E i \in 1..Len(LowerCase) : LowerCase[i] = c
    THEN UpperCase[CHOOSE i \in 1..Len(LowerCase) : LowerCase[i] = c]
    ELSE c

\* str.lower()
lower(s) == [i \in 1..Len(s) |-> ToLower(s[i])]

\* str.upper()
upper(s) == [i \in 1..Len(s) |-> ToUpper(s[i])]

\* str.split(sep) for a one-character sep: every occurrence separates, no
\* item is trimmed or dropped, and the empty string gives [''].
RECURSIVE split(_, _)
split(s, sep) ==
    IF \E i \in 1..Len(s) : s[i] = sep
    THEN LET i == Min({j \in 1..Len(s) : s[j] = sep})
         IN  <<SubSeq(s, 1, i - 1)>> \o split(SubSeq(s, i + 1, Len(s)), sep)
    ELSE <<s>>

\* str.strip(), which int() and float() apply to their argument
strip(s) ==
    LET keep == {i \in 1..Len(s) : s[i] \notin Whitespace}
    IN  IF keep = {} THEN <<>> ELSE SubSeq(s, Min(keep), Max(keep))

\* A digit part: digits, single underscores allowed between two digits.
IsDigitPart(s) ==
    /\ Len(s) > 0
    /\ \A i \in 1..Len(s) : IsDigit(s[i]) \/ s[i] = "_"
    /\ s[1] # "_"
    /\ s[Len(s)] # "_"
    /\ \A i \in 1..(Len(s) - 1) : ~(s[i] = "_" /\ s[i + 1] = "_")

NotUnderscore(c) == c # "_"

RECURSIVE Decimal(_)
Decimal(d) ==
    IF d = <<>> THEN 0
    ELSE Decimal(SubSeq(d, 1, Len(d) - 1)) * 10 + DigitVal(d[Len(d)])

DigitPartVal(s) == Decimal(SelectSeq(s, NotUnderscore))

HasSign(s) == Len(s) > 0 /\ s[1] \in {"+", "-"}

Unsigned(s) == IF HasSign(s) THEN Tail(s) ELSE s

SignOf(s) == IF Len(s) > 0 /\ s[1] = "-" THEN -1 ELSE 1

Raised(type, by) == [ok |-> FALSE, val |-> None, exc |-> type, by |-> by]

Value(x) == [ok |-> TRUE, val |-> x, exc |-> "", by |-> ""]

\* int(s) for a str s: base 10, surrounding whitespace and a sign allowed;
\* anything else raises ValueError.
int(s) ==
    LET body == Unsigned(strip(s))
    IN  IF IsDigitPart(body)
        THEN Value(IntV(SignOf(strip(s)) * DigitPartVal(body)))
        ELSE Raised("ValueError", "int")

RECURSIVE Normalise(_, _)
Normalise(m, e) ==
    IF m = 0 THEN <<0, 0>>
    ELSE IF m % 10 = 0 THEN Normalise(m \div 10, e + 1)
    ELSE <<m, e>>

Positions(s, chars) == {i \in 1..Len(s) : s[i] \in chars}

\* The decimal forms float() accepts: [digits][.[digits]][(e|E)[sign]digits]
\* with at least one digit before the exponent.
IsFloatLiteral(body) ==
    LET es    == Positions(body, {"e", "E"})
        mant  == IF es = {} THEN body ELSE SubSeq(body, 1, Min(es) - 1)
        expo  == IF es = {} THEN <<>> ELSE SubSeq(body, Min(es) + 1, Len(body))
        dots  == Positions(mant, {"."})
        ip    == IF dots = {} THEN mant ELSE SubSeq(mant, 1, Min(dots) - 1)
        fp    == IF dots = {} THEN <<>> ELSE SubSeq(mant, Min(dots) + 1, Len(mant))
    IN  /\ Cardinality(es) <= 1
        /\ Cardinality(dots) <= 1
        /\ es # {} => IsDigitPart(Unsigned(expo))
        /\ ip = <<>> \/ IsDigitPart(ip)
        /\ fp = <<>> \/ IsDigitPart(fp)
        /\ ip # <<>> \/ fp # <<>>

FloatLiteralVal(sign, body) ==
    LET es    == Positions(body, {"e", "E"})
        mant  == IF es = {} THEN body ELSE SubSeq(body, 1, Min(es) - 1)
        expo  == IF es = {} THEN <<>> ELSE SubSeq(body, Min(es) + 1, Len(body))
        dots  == Positions(mant, {"."})
        ip    == IF dots = {} THEN mant ELSE SubSeq(mant, 1, Min(dots) - 1)
        fp    == IF dots = {} THEN <<>> ELSE SubSeq(mant, Min(dots) + 1, Len(mant))
        fd    == SelectSeq(fp, NotUnderscore)
        m     == Decimal(SelectSeq(ip, NotUnderscore) \o fd)
        x     == IF es = {} THEN 0 ELSE SignOf(expo) * DigitPartVal(Unsigned(expo))
        n     == Normalise(m, x - Len(fd))
    IN  FloatV("finite", sign * n[1], n[2])

\* float(s) for a str s; anything that is no float literal raises ValueError.
float(s) ==
    LET t    == strip(s)
        body == Unsigned(t)
        word == lower(body)
    IN  IF word \in {<<"i","n","f">>, <<"i","n","f","i","n","i","t","y">>}
        THEN Value(FloatV("inf", SignOf(t), 0))
        ELSE IF word = <<"n","a","n">>
        THEN Value(FloatV("nan", 0, 0))
        ELSE IF IsFloatLiteral(body)
        THEN Value(FloatLiteralVal(SignOf(t), body))
        ELSE Raised("ValueError", "float")

\* os.getenv(key, default)
getenv(e, key, default) == IF key \in DOMAIN e THEN e[key] ELSE default

(***************************************************************************)
(* The field default expressions of settings.py.  Each returns the value   *)
(* or the exception raised.                                                *)
(***************************************************************************)
\* os.getenv(key, default)
StrField(e, key, default) == Value(Str(getenv(e, key, default)))

\* A variant of IntField that swallows the ValueError and takes the default.
IntFieldOrDefault(e, key, default) ==
    IF int(getenv(e, key, default)).ok
    THEN int(getenv(e, key, default))
    ELSE int(default)

\* int(os.getenv(key, default))
IntField(e, key, default) == int(getenv(e, key, default))

\* float(os.getenv(key, default))
FloatField(e, key, default) == float(getenv(e, key, default))

\* os.getenv(key, default).lower() == 'true'
BoolField(e, key, default) ==
    Value(BoolV(lower(getenv(e, key, default)) = <<"t","r","u","e">>))

\* os.getenv(key, default).split(',')
SplitField(e, key, default) == Value(ListV(split(getenv(e, key, default), ",")))

\* os.getenv(key, default).upper()
UpperField(e, key, default) == Value(Str(upper(getenv(e, key, default))))

EnvField(name, kind, var, default) ==
    [name |-> name, kind |-> kind, var |-> var, default |-> default, value |-> None]

Literal(name, value) ==
    [name |-> name, kind |-> "literal", var |-> "", default |-> <<>>, value |-> value]

EvalField(e, f) ==
    CASE f.kind = "str"     -> StrField(e, f.var, f.default)
      [] f.kind = "int"     -> IntField(e, f.var, f.default)
      [] f.kind = "float"   -> FloatField(e, f.var, f.default)
      [] f.kind = "bool"    -> BoolField(e, f.var, f.default)
      [] f.kind = "split"   -> SplitField(e, f.var, f.default)
      [] f.kind = "upper"   -> UpperField(e, f.var, f.default)
      [] f.kind = "literal" -> Value(f.value)

(***************************************************************************)
(* The class bodies: one entry per annotated field, in source order.       *)
(***************************************************************************)
GNSSConfigFields ==
  <<
     EnvField("port", "str", "GNSS_PORT",
        <<"/","d","e","v","/","t","t","y","A","C","M","0">>),
     EnvField("baudrate", "int", "GNSS_BAUDRATE",
        <<"9","6","0","0">>),
     EnvField("timeout", "float", "GNSS_TIMEOUT",
        <<"1",".","0">>),
     EnvField("protocol", "str", "GNSS_PROTOCOL",
        <<"U","B","X">>),
     EnvField("enable_rtcm", "bool", "GNSS_ENABLE_RTCM",
        <<"T","r","u","e">>),
     EnvField("enable_nmea", "bool", "GNSS_ENABLE_NMEA",
        <<"T","r","u","e">>),
     EnvField("ubx_rate", "int", "GNSS_UBX_RATE",
        <<"1">>),
     EnvField("nav_rate", "int", "GNSS_NAV_RATE",
        <<"1">>)
  >>

WebConfigFields ==
  <<
     EnvField("host", "str", "WEB_HOST",
        <<"0",".","0",".","0",".","0">>),
     EnvField("port", "int", "WEB_PORT",
        <<"5","0","0","0">>),
     EnvField("debug", "bool", "WEB_DEBUG",
        <<"F","a","l","s","e">>),
     EnvField("secret_key", "str", "WEB_SECRET_KEY",
        <<"d","e","v","-","s","e","c","r","e","t","-","k","e","y","-","c","h","a","n","g","e","-","i","n","-","p","r","o","d","u","c","t","i","o","n">>),
     EnvField("cors_origins", "split", "WEB_CORS_ORIGINS",
        <<"*">>),
     EnvField("session_timeout", "int", "WEB_SESSION_TIMEOUT",
        <<"3","6","0","0">>),
     EnvField("rate_limit", "str", "WEB_RATE_LIMIT",
        <<"1","0","0"," ","p","e","r"," ","m","i","n","u","t","e">>)
  >>

MapConfigFields ==
  <<
     Literal("default_center", ListV(<<FloatV("finite", 0, 0), FloatV("finite", 0, 0)>>)),
     Literal("default_zoom", IntV(2)),
     Literal("max_zoom", IntV(18)),
     EnvField("tile_provider", "str", "MAP_TILE_PROVIDER",
        <<"h","t","t","p","s",":","/","/","{","s","}",".","t","i","l","e",".","o","p","e","n","s","t","r","e","e","t","m","a","p",".","o","r","g","/","{","z","}","/","{","x","}","/","{","y","}",".","p","n","g">>),
     EnvField("tile_attribution", "str", "MAP_TILE_ATTRIBUTION",
        <<"U+00C2","U+00A9"," ","<","a"," ","h","r","e","f","=","\"","h","t","t","p","s",":","/","/","w","w","w",".","o","p","e","n","s","t","r","e","e","t","m","a","p",".","o","r","g","/","c","o","p","y","r","i","g","h","t","\"",">","O","p","e","n","S","t","r","e","e","t","M","a","p","<","/","a",">"," ","c","o","n","t","r","i","b","u","t","o","r","s">>),
     EnvField("satellite_layer", "bool", "MAP_SATELLITE_LAYER",
        <<"T","r","u","e">>),
     EnvField("satellite_url", "str", "MAP_SATELLITE_URL",
        <<"h","t","t","p","s",":","/","/","s","e","r","v","e","r",".","a","r","c","g","i","s","o","n","l","i","n","e",".","c","o","m","/","A","r","c","G","I","S","/","r","e","s","t","/","s","e","r","v","i","c","e","s","/","W","o","r","l","d","_","I","m","a","g","e","r","y","/","M","a","p","S","e","r","v","e","r","/","t","i","l","e","/","{","z","}","/","{","y","}","/","{","x","}">>)
  >>

LoggingConfigFields ==
  <<
     EnvField("level", "upper", "LOG_LEVEL",
        <<"I","N","F","O">>),
     Literal("format",
        Str(<<"%","(","a","s","c","t","i","m","e",")","s"," ","-"," ","%","(","n","a","m","e",")","s"," ","-"," ","%","(","l","e","v","e","l","n","a","m","e",")","s"," ","-"," ","%","(","m","e","s","s","a","g","e",")","s">>)),
     Literal("date_format",
        Str(<<"%","Y","-","%","m","-","%","d"," ","%","H",":","%","M",":","%","S">>)),
     EnvField("file_enabled", "bool", "LOG_FILE_ENABLED",
        <<"T","r","u","e">>),
     EnvField("file_path", "str", "LOG_FILE_PATH",
        <<"d","a","t","a","/","l","o","g","s","/","g","n","s","s","_","v","i","e","w","e","r",".","l","o","g">>),
     EnvField("max_file_size", "int", "LOG_MAX_FILE_SIZE",
        <<"1","0","4","8","5","7","6","0">>),
     EnvField("backup_count", "int", "LOG_BACKUP_COUNT",
        <<"5">>)
  >>

DataConfigFields ==
  <<
     EnvField("enable_logging", "bool", "DATA_ENABLE_LOGGING",
        <<"T","r","u","e">>),
     EnvField("log_directory", "str", "DATA_LOG_DIRECTORY",
        <<"d","a","t","a","/","l","o","g","s">>),
     EnvField("export_directory", "str", "DATA_EXPORT_DIRECTORY",
        <<"d","a","t","a","/","e","x","p","o","r","t","s">>),
     EnvField("max_history_points", "int", "DATA_MAX_HISTORY",
        <<"1","0","0","0","0">>),
     EnvField("export_formats", "split", "DATA_EXPORT_FORMATS",
        <<"c","s","v",",","j","s","o","n",",","k","m","l">>),
     EnvField("cache_enabled", "bool", "DATA_CACHE_ENABLED",
        <<"T","r","u","e">>),
     EnvField("cache_ttl", "int", "DATA_CACHE_TTL",
        <<"3","0","0">>)
  >>

SatelliteConfigFields ==
  <<
     Literal("systems", None)
  >>

\* SatelliteConfig.__post_init__'s registry.  Colors and descriptions are
\* never taken apart, so they stay whole strings.
DefaultSystems ==
    ("GPS" :> [enabled |-> TRUE, color |-> "#00ff88", priority |-> 1,
               description |-> "Global Positioning System (USA)"])
    @@ ("GLONASS" :> [enabled |-> TRUE, color |-> "#ff4444", priority |-> 2,
               description |-> "Global Navigation Satellite System (Russia)"])
    @@ ("Galileo" :> [enabled |-> TRUE, color |-> "#4488ff", priority |-> 3,
               description |-> "European Global Navigation Satellite System"])
    @@ ("BeiDou" :> [enabled |-> TRUE, color |-> "#ffaa00", priority |-> 4,
               description |-> "BeiDou Navigation Satellite System (China)"])
    @@ ("QZSS" :> [enabled |-> FALSE, color |-> "#aa00ff", priority |-> 5,
               description |-> "Quasi-Zenith Satellite System (Japan)"])
    @@ ("SBAS" :> [enabled |-> FALSE, color |-> "#ff00aa", priority |-> 6,
               description |-> "Satellite-Based Augmentation Systems"])

ClassNames ==
    <<"GNSSConfig", "WebConfig", "MapConfig", "LoggingConfig", "DataConfig",
      "SatelliteConfig">>

Fields(cls) ==
    CASE cls = "GNSSConfig"      -> GNSSConfigFields
      [] cls = "WebConfig"       -> WebConfigFields
      [] cls = "MapConfig"       -> MapConfigFields
      [] cls = "LoggingConfig"   -> LoggingConfigFields
      [] cls = "DataConfig"      -> DataConfigFields
      [] cls = "SatelliteConfig" -> SatelliteConfigFields

NoError == [type |-> "", by |-> "", cls |-> "", field |-> ""]

IsEnvVar(v) == v # ""

\* The field expressions of a class body, each with its outcome.
EvalFields(fields, e) == [i \in 1..Len(fields) |-> EvalField(e, fields[i])]

\* The namespace a class body leaves, given its fields' outcomes: the
\* expressions run in order and the first exception ends the body.  `reads`
\* lists the variables looked up.
BodyResult(cls, fields, res, bad) ==
    LET last == IF bad = {} THEN Len(fields) ELSE Min(bad)
        done == IF bad = {} THEN Len(fields) ELSE Min(bad) - 1
    IN  [ok    |-> bad = {},
         ns    |-> [n \in {fields[i].name : i \in 1..done} |->
                       res[CHOOSE i \in 1..done : fields[i].name = n].val],
         reads |-> SelectSeq([i \in 1..last |-> fields[i].var], IsEnvVar),
         exc   |-> IF bad = {} THEN NoError
                   ELSE [type |-> res[last].exc, by |-> res[last].by,
                         cls |-> cls, field |-> fields[last].name]]

Failing(res) == {i \in DOMAIN res : ~res[i].ok}

\* The body of a class statement.
ExecClassBody(cls, fields, res) == BodyResult(cls, fields, res, Failing(res))

\* dataclasses refuses a field whose default is a list, a dict or a set
\* ("mutable default <class 'list'> for field f is not allowed: use
\* default_factory"); the fields are examined in annotation order.
IsMutableDefault(x) == x.t \in {"list", "dict", "set"}

MutableDefaults(fields, ns) ==
    {i \in 1..Len(fields) : IsMutableDefault(ns[fields[i].name])}

\* The @dataclass decorator applied to the class the body produced.
dataclass(cls, fields, body, mutable) ==
    IF mutable = {}
    THEN body
    ELSE [body EXCEPT !.ok = FALSE,
                      !.exc = [type |-> "ValueError", by |-> "dataclass",
                               cls |-> cls, field |-> fields[Min(mutable)].name]]

\* The decorator runs only on a class whose body raised nothing.
Decorate(cls, fields, body) ==
    IF body.ok
    THEN dataclass(cls, fields, body, MutableDefaults(fields, body.ns))
    ELSE body

\* A whole class statement: the body, then the decorator.  WebConfig,
\* MapConfig and DataConfig each have a list default, so the decorator raises
\* for them whenever their body did not.
ClassStatement(cls, fields, e) ==
    Decorate(cls, fields, ExecClassBody(cls, fields, EvalFields(fields, e)))

ClassDef(cls, e) == ClassStatement(cls, Fields(cls), e)

\* SatelliteConfig.__post_init__; the other classes define none.
__post_init__(cls, self) ==
    IF cls = "SatelliteConfig" /\ self["systems"].t = "NoneType"
    THEN [self EXCEPT !["systems"] = DictV(DefaultSystems)]
    ELSE self

\* cls(**args): the generated __init__ binds each field to its argument or
\* to the class default, then __post_init__ runs.
New(cls, defaults, args) ==
    __post_init__(cls, [n \in DOMAIN defaults |->
                      IF n \in DOMAIN args THEN args[n] ELSE defaults[n]])

(***************************************************************************)
(* The top-level statements of settings.py that the claims concern: the    *)
(* six class statements (lines 16-132), then the six instances (135-140).  *)
(* The statements after them (BASE_DIR, def setup_logging, __all__) define *)
(* names and read nothing.                                                 *)
(***************************************************************************)
InstanceNames ==
    <<"gnss_config", "web_config", "map_config", "logging_config",
      "data_config", "satellite_config">>

Statements ==
    [i \in 1..(Len(ClassNames) + Len(InstanceNames)) |->
        IF i <= Len(ClassNames)
        THEN [kind |-> "class", cls |-> ClassNames[i], name |-> ""]
        ELSE [kind |-> "instance", cls |-> ClassNames[i - Len(ClassNames)],
              name |-> InstanceNames[i - Len(ClassNames)]]]

\* Every environment variable the class bodies name.
VarsOf(fields) == {fields[i].var : i \in 1..Len(fields)} \ {""}

EnvNames == UNION {VarsOf(Fields(ClassNames[c])) : c \in 1..Len(ClassNames)}

(***************************************************************************)
(* The environments tried: at most MaxSet variables set, each to one of    *)
(* EnvValues.                                                              *)
(***************************************************************************)
EnvValues ==
    { <<>>,
      <<"t","r","u","e">>, <<"T","R","U","E">>, <<"T","r","u","e">>,
      <<"f","a","l","s","e">>, <<"y","e","s">>, <<"n","o">>,
      <<"1">>, <<"0">>, <<" ","4","2"," ">>,
      <<"a","b","c">>, <<"1",".","5">>, <<"n","a","n">>,
      <<"a",",","b",",","c">>, <<"a",","," ","b">> }

InitSettings ==
    /\ \E n \in 0..MaxSet : \E q \in [1..n -> EnvNames] :
          env \in [{q[i] : i \in 1..n} -> EnvValues]
    /\ pc = 1
    /\ status = "loading"
    /\ error = NoError
    /\ classes = EmptyMap
    /\ instances = EmptyMap
    /\ reads = <<>>

\* The state before `import config.constants`.
InitConstants ==
    /\ tables = EmptyMap
    /\ cpc = 1
    /\ result = [table |-> "", found |-> FALSE, key |-> "", value |-> ""]

Init == InitSettings /\ InitConstants

\* A class statement binds the class, or raises.
BindClass(st, cl, inst, r) ==
    [ok        |-> r.ok,
     classes   |-> IF r.ok THEN cl @@ (st.cls :> r.ns) ELSE cl,
     instances |-> inst,
     reads     |-> r.reads,
     exc       |-> r.exc]

\* An instance statement calls the class with no argument and binds the
\* record.
BindInstance(st, cl, inst) ==
    [ok        |-> TRUE,
     classes   |-> cl,
     instances |-> inst @@ (st.name :> New(st.cls, cl[st.cls], EmptyMap)),
     reads     |-> <<>>,
     exc       |-> NoError]

\* What one statement of settings.py does to the module.
Exec(st, e, cl, inst) ==
    IF st.kind = "class"
    THEN BindClass(st, cl, inst, ClassDef(st.cls, e))
    ELSE BindInstance(st, cl, inst)

\* import config.settings, one top-level statement at a time.  An exception
\* ends the import: the statements after it never run.
ExecStatement ==
    /\ status = "loading"
    /\ \E r \in {Exec(Statements[pc], env, classes, instances)} :
          /\ classes' = r.classes
          /\ instances' = r.instances
          /\ reads' = reads \o r.reads
          /\ error' = r.exc
          /\ status' = IF ~r.ok THEN "failed"
                       ELSE IF pc = Len(Statements) THEN "loaded"
                       ELSE "loading"
          /\ pc' = IF r.ok THEN pc + 1 ELSE pc
    /\ UNCHANGED <<env, constantsVars>>

Next == ExecStatement

Spec == Init /\ [][Next]_vars

(***************************************************************************)
(* constants.py: the tables, as written.                                   *)
(***************************************************************************)
\* A variant of GNSS_FIX_QUALITY with the values of codes 4 and 5 exchanged.
GNSS_FIX_QUALITY_Swapped ==
    (0 :> "No Fix") @@ (1 :> "GPS Fix") @@ (2 :> "DGPS Fix") @@ (3 :> "PPS Fix")
    @@ (4 :> "RTK Float") @@ (5 :> "RTK Fixed") @@ (6 :> "DR") @@ (7 :> "Manual")
    @@ (8 :> "Simulation")

GNSS_FIX_QUALITY ==
    (0 :> "No Fix") @@ (1 :> "GPS Fix") @@ (2 :> "DGPS Fix") @@ (3 :> "PPS Fix")
    @@ (4 :> "RTK Fixed") @@ (5 :> "RTK Float") @@ (6 :> "DR") @@ (7 :> "Manual")
    @@ (8 :> "Simulation")

GNSS_SIGNAL_QUALITY ==
    (0 :> "No Signal") @@ (1 :> "Searching") @@ (2 :> "Acquired")
    @@ (3 :> "Unusable") @@ (4 :> "Code Lock") @@ (5 :> "Code & Carrier Lock")
    @@ (6 :> "Code & Carrier Lock (Time)")

\* The keys are written in hexadecimal in the source: 0x01, 0x02, 0x04, 0x05,
\* 0x06, 0x0A, 0x0D, 0x10, 0x13, 0x21, 0x27, 0x28.
UBX_CLASSES ==
    (1 :> "NAV") @@ (2 :> "RXM") @@ (4 :> "INF") @@ (5 :> "ACK") @@ (6 :> "CFG")
    @@ (10 :> "MON") @@ (13 :> "TIM") @@ (16 :> "ESF") @@ (19 :> "MGA")
    @@ (33 :> "LOG") @@ (39 :> "SEC") @@ (40 :> "HNR")

NMEA_SENTENCES ==
    ("GGA" :> "Global Positioning System Fix Data")
    @@ ("GLL" :> "Geographic Position - Latitude/Longitude")
    @@ ("GSA" :> "GNSS DOP and Active Satellites")
    @@ ("GSV" :> "GNSS Satellites in View")
    @@ ("RMC" :> "Recommended Minimum Specific GNSS Data")
    @@ ("VTG" :> "Course Over Ground and Ground Speed")
    @@ ("ZDA" :> "Time & Date")
    @@ ("PUBX" :> "u-blox Proprietary")

ERROR_CODES ==
    ("GNSS001" :> "GNSS receiver not connected")
    @@ ("GNSS002" :> "Invalid NMEA sentence")
    @@ ("GNSS003" :> "Serial port error")
    @@ ("WEB001" :> "Invalid API request")
    @@ ("WEB002" :> "Resource not found")
    @@ ("WEB003" :> "Rate limit exceeded")
    @@ ("SYS001" :> "System configuration error")
    @@ ("SYS002" :> "Database connection failed")

STATUS_MESSAGES ==
    ("CONNECTING" :> "Connecting to GNSS receiver...")
    @@ ("CONNECTED" :> "GNSS receiver connected")
    @@ ("DISCONNECTED" :> "GNSS receiver disconnected")
    @@ ("NO_FIX" :> "No satellite fix")
    @@ ("2D_FIX" :> "2D fix acquired")
    @@ ("3D_FIX" :> "3D fix acquired")
    @@ ("RTK_FLOAT" :> "RTK float solution")
    @@ ("RTK_FIXED" :> "RTK fixed solution")

COLORS ==
    ("primary" :> "#0066cc") @@ ("secondary" :> "#00cc66")
    @@ ("accent" :> "#ff9900") @@ ("danger" :> "#ff4444")
    @@ ("warning" :> "#ffaa00") @@ ("info" :> "#00aaff")
    @@ ("success" :> "#00cc88") @@ ("dark" :> "#1a1a2e")
    @@ ("light" :> "#f8f9fa")

API_RESPONSE ==
    ("success" :> [status |-> "success", code |-> 200])
    @@ ("error" :> [status |-> "error", code |-> 400])

\* The tables keyed by a number, and those keyed by a str.
CodeTables == {"GNSS_FIX_QUALITY", "GNSS_SIGNAL_QUALITY", "UBX_CLASSES"}

NameTables ==
    {"NMEA_SENTENCES", "ERROR_CODES", "STATUS_MESSAGES", "COLORS", "API_RESPONSE"}

\* The dict assignments of constants.py in source order (VERSION and
\* API_VERSION, two plain strings, come before them).
Assignments ==
    <<"GNSS_FIX_QUALITY", "GNSS_SIGNAL_QUALITY", "UBX_CLASSES", "NMEA_SENTENCES",
      "ERROR_CODES", "STATUS_MESSAGES", "COLORS", "API_RESPONSE">>

TableOf(name) ==
    CASE name = "GNSS_FIX_QUALITY"    -> GNSS_FIX_QUALITY
      [] name = "GNSS_SIGNAL_QUALITY" -> GNSS_SIGNAL_QUALITY
      [] name = "UBX_CLASSES"         -> UBX_CLASSES
      [] name = "NMEA_SENTENCES"      -> NMEA_SENTENCES
      [] name = "ERROR_CODES"         -> ERROR_CODES
      [] name = "STATUS_MESSAGES"     -> STATUS_MESSAGES
      [] name = "COLORS"              -> COLORS
      [] name = "API_RESPONSE"        -> API_RESPONSE

\* The str keys tried: every key some str-keyed table has, and one none has.
NameKeys == UNION {DOMAIN TableOf(t) : t \in NameTables} \cup {"UNKNOWN"}

ConstantsLoaded == cpc > Len(Assignments)

\* import config.constants, one assignment at a time.
ExecAssignment ==
    /\ cpc <= Len(Assignments)
    /\ tables' = tables @@ (Assignments[cpc] :> TableOf(Assignments[cpc]))
    /\ cpc' = cpc + 1
    /\ UNCHANGED <<result, settingsVars>>

\* table[key] on a dict: the value, or KeyError for a key the dict lacks.
Subscript(t, k) ==
    IF k \in DOMAIN tables[t]
    THEN [table |-> t, found |-> TRUE, key |-> k, value |-> tables[t][k]]
    ELSE [table |-> t, found |-> FALSE, key |-> k, value |-> "KeyError"]

\* A consumer subscripts a number-keyed table.
SubscriptCode ==
    /\ ConstantsLoaded
    /\ \E t \in CodeTables, k \in 0..MaxCode : result' = Subscript(t, k)
    /\ UNCHANGED <<tables, cpc, settingsVars>>

\* A consumer subscripts a str-keyed table.
SubscriptName ==
    /\ ConstantsLoaded
    /\ \E t \in NameTables, k \in NameKeys : result' = Subscript(t, k)
    /\ UNCHANGED <<tables, cpc, settingsVars>>

\* The settings module is not imported in this specification.
SettingsNotImported ==
    /\ env = EmptyMap
    /\ pc = 1
    /\ status = "loading"
    /\ error = NoError
    /\ classes = EmptyMap
    /\ instances = EmptyMap
    /\ reads = <<>>

InitOfConstants == SettingsNotImported /\ InitConstants

NextConstants == ExecAssignment \/ SubscriptCode \/ SubscriptName

SpecConstants ==
    InitOfConstants /\ [][NextConstants]_vars

(***************************************************************************)
(* The claims.                                                             *)
(***************************************************************************)
Ended == status # "loading"

RangeOf(s) == {s[i] : i \in 1..Len(s)}

\* A field is named by <<c, i>>: field i of class ClassNames[c].
FieldIds ==
    UNION {{<<c, i>> : i \in 1..Len(Fields(ClassNames[c]))} :
              c \in 1..Len(ClassNames)}

FieldAt(id) == Fields(ClassNames[id[1]])[id[2]]

NumericIds == {id \in FieldIds : FieldAt(id).kind \in {"int", "float"}}

FieldOfVar(v) == CHOOSE id \in FieldIds : FieldAt(id).var = v

\* The module-level record that holds variable v's field exists.
HasField(v) == InstanceNames[FieldOfVar(v)[1]] \in DOMAIN instances

\* The value of variable v's field in the module-level record.
FieldValue(v) ==
    instances[InstanceNames[FieldOfVar(v)[1]]][FieldAt(FieldOfVar(v)).name]

\* Every integer- or float-typed variable is unset or parses.
NumbersValid(e) == \A id \in NumericIds : EvalField(e, FieldAt(id)).ok

\* A string no reader would take for a number: it holds a character other
\* than a digit, a sign, a point, an exponent mark, an underscore or white
\* space, or it holds no digit at all; inf, infinity and nan are numbers for
\* a float-typed variable.
NumericChars ==
    RangeOf(Digits) \cup {"+", "-", ".", "e", "E", "_"} \cup Whitespace

SpecialFloatWords ==
    {<<"i","n","f">>, <<"i","n","f","i","n","i","t","y">>, <<"n","a","n">>}

NonNumeric(kind, s) ==
    /\ \/ \E i \in 1..Len(s) : s[i] \notin NumericChars
       \/ \A i \in 1..Len(s) : ~IsDigit(s[i])
    /\ ~(kind = "float" /\ lower(Unsigned(strip(s))) \in SpecialFloatWords)

SixRecords ==
    /\ DOMAIN instances = RangeOf(InstanceNames)
    /\ \A c \in 1..Len(ClassNames) :
          DOMAIN instances[InstanceNames[c]]
              = {Fields(ClassNames[c])[i].name : i \in 1..Len(Fields(ClassNames[c]))}

\* C1: whenever every integer- or float-typed variable is unset or holds a
\* valid number, loading the settings module ends without error and leaves
\* one populated record for each of the six domains.
C1_AssemblyCompletes ==
    (Ended /\ NumbersValid(env)) =>
        (status = "loaded" /\ error = NoError /\ SixRecords)

\* C2: a non-numeric value of an integer- or float-typed variable makes the
\* load fail instead of falling back to the default: once the variable has
\* been read the load has failed with the ValueError of that field's int()
\* or float(), the class of the field is never bound with a default in its
\* place, and a load that has ended has failed with no record constructed.
C2_BadNumberFailsTotally ==
    \A id \in NumericIds :
        (/\ FieldAt(id).var \in DOMAIN env
         /\ NonNumeric(FieldAt(id).kind, env[FieldAt(id).var]))
        => /\ Ended => (status = "failed" /\ DOMAIN instances = {})
           /\ ClassNames[id[1]] \notin DOMAIN classes
           /\ FieldAt(id).var \in RangeOf(reads) =>
                 /\ status = "failed"
                 /\ error = [type |-> "ValueError", by |-> FieldAt(id).kind,
                             cls |-> ClassNames[id[1]],
                             field |-> FieldAt(id).name]

\* C2's case: GNSS_BAUDRATE is set to a non-numeric string and the load has
\* ended with the ValueError of int() at the baudrate field.
C2_Witness ==
    /\ status = "failed"
    /\ "GNSS_BAUDRATE" \in DOMAIN env
    /\ NonNumeric("int", env["GNSS_BAUDRATE"])
    /\ error.by = "int"
    /\ error.field = "baudrate"
    /\ DOMAIN instances = {}

\* C3: once an assembly from valid numbers has ended, the six records are
\* constructed, and no step changes a field of a record that exists.
C3_RecordsImmutable ==
    [][(status' # "loading" /\ NumbersValid(env)) =>
          /\ DOMAIN instances' = RangeOf(InstanceNames)
          /\ \A n \in DOMAIN instances : instances'[n] = instances[n]]_vars

\* The defaults of the table of environment variables, coerced to the type
\* the table gives.
DocumentedDefault(v) ==
    CASE v = "GNSS_PORT" ->
           Str(<<"/","d","e","v","/","t","t","y","A","C","M","0">>)
      [] v = "GNSS_BAUDRATE" ->
           IntV(9600)
      [] v = "GNSS_TIMEOUT" ->
           FloatV("finite", 1, 0)
      [] v = "GNSS_PROTOCOL" ->
           Str(<<"U","B","X">>)
      [] v = "GNSS_ENABLE_RTCM" ->
           BoolV(TRUE)
      [] v = "GNSS_ENABLE_NMEA" ->
           BoolV(TRUE)
      [] v = "GNSS_UBX_RATE" ->
           IntV(1)
      [] v = "GNSS_NAV_RATE" ->
           IntV(1)
      [] v = "WEB_HOST" ->
           Str(<<"0",".","0",".","0",".","0">>)
      [] v = "WEB_PORT" ->
           IntV(5000)
      [] v = "WEB_DEBUG" ->
           BoolV(FALSE)
      [] v = "WEB_SECRET_KEY" ->
           Str(<<"d","e","v","-","s","e","c","r","e","t","-","k","e","y","-","c","h","a","n","g","e","-","i","n","-","p","r","o","d","u","c","t","i","o","n">>)
      [] v = "WEB_CORS_ORIGINS" ->
           ListV(<<<<"*">>>>)
      [] v = "WEB_SESSION_TIMEOUT" ->
           IntV(3600)
      [] v = "WEB_RATE_LIMIT" ->
           Str(<<"1","0","0"," ","p","e","r"," ","m","i","n","u","t","e">>)
      [] v = "MAP_TILE_PROVIDER" ->
           Str(<<"h","t","t","p","s",":","/","/","{","s","}",".","t","i","l","e",".","o","p","e","n","s","t","r","e","e","t","m","a","p",".","o","r","g","/","{","z","}","/","{","x","}","/","{","y","}",".","p","n","g">>)
      [] v = "MAP_TILE_ATTRIBUTION" ->
           Str(<<"U+00C2","U+00A9"," ","<","a"," ","h","r","e","f","=","\"","h","t","t","p","s",":","/","/","w","w","w",".","o","p","e","n","s","t","r","e","e","t","m","a","p",".","o","r","g","/","c","o","p","y","r","i","g","h","t","\"",">","O","p","e","n","S","t","r","e","e","t","M","a","p","<","/","a",">"," ","c","o","n","t","r","i","b","u","t","o","r","s">>)
      [] v = "MAP_SATELLITE_LAYER" ->
           BoolV(TRUE)
      [] v = "MAP_SATELLITE_URL" ->
           Str(<<"h","t","t","p","s",":","/","/","s","e","r","v","e","r",".","a","r","c","g","i","s","o","n","l","i","n","e",".","c","o","m","/","A","r","c","G","I","S","/","r","e","s","t","/","s","e","r","v","i","c","e","s","/","W","o","r","l","d","_","I","m","a","g","e","r","y","/","M","a","p","S","e","r","v","e","r","/","t","i","l","e","/","{","z","}","/","{","y","}","/","{","x","}">>)
      [] v = "LOG_LEVEL" ->
           Str(<<"I","N","F","O">>)
      [] v = "LOG_FILE_ENABLED" ->
           BoolV(TRUE)
      [] v = "LOG_FILE_PATH" ->
           Str(<<"d","a","t","a","/","l","o","g","s","/","g","n","s","s","_","v","i","e","w","e","r",".","l","o","g">>)
      [] v = "LOG_MAX_FILE_SIZE" ->
           IntV(10485760)
      [] v = "LOG_BACKUP_COUNT" ->
           IntV(5)
      [] v = "DATA_ENABLE_LOGGING" ->
           BoolV(TRUE)
      [] v = "DATA_LOG_DIRECTORY" ->
           Str(<<"d","a","t","a","/","l","o","g","s">>)
      [] v = "DATA_EXPORT_DIRECTORY" ->
           Str(<<"d","a","t","a","/","e","x","p","o","r","t","s">>)
      [] v = "DATA_MAX_HISTORY" ->
           IntV(10000)
      [] v = "DATA_EXPORT_FORMATS" ->
           ListV(<<<<"c","s","v">>, <<"j","s","o","n">>, <<"k","m","l">>>>)
      [] v = "DATA_CACHE_ENABLED" ->
           BoolV(TRUE)
      [] v = "DATA_CACHE_TTL" ->
           IntV(300)

\* C4: for every variable of the table that is unset, the field of the
\* assembled record equals the table's default.
C4_UnsetGivesDefault ==
    (Ended /\ NumbersValid(env)) =>
        \A v \in EnvNames \ DOMAIN env :
            HasField(v) /\ FieldValue(v) = DocumentedDefault(v)

BooleanVariables ==
    {"GNSS_ENABLE_RTCM", "GNSS_ENABLE_NMEA", "WEB_DEBUG", "MAP_SATELLITE_LAYER",
     "LOG_FILE_ENABLED", "DATA_ENABLE_LOGGING", "DATA_CACHE_ENABLED"}

\* s is "true" in some mix of upper and lower case.
IsTrueWord(s) ==
    /\ Len(s) = 4
    /\ s[1] \in {"t", "T"}
    /\ s[2] \in {"r", "R"}
    /\ s[3] \in {"u", "U"}
    /\ s[4] \in {"e", "E"}

\* C5: for every boolean-typed variable that is set, the assembled field is
\* true exactly when the value is "true" in any case, and false otherwise.
C5_BooleanIffTrue ==
    (Ended /\ NumbersValid(env)) =>
        \A v \in BooleanVariables \cap DOMAIN env :
            HasField(v) /\ FieldValue(v) = BoolV(IsTrueWord(env[v]))

ListVariables == {"WEB_CORS_ORIGINS", "DATA_EXPORT_FORMATS"}

RECURSIVE Join(_)
Join(items) ==
    IF Len(items) = 1 THEN items[1]
    ELSE items[1] \o <<",">> \o Join(Tail(items))

\* items is s cut at its commas: no item holds a comma, and the items joined
\* by commas are s again (nothing trimmed, nothing dropped).
IsCommaSplit(items, s) ==
    /\ Len(items) >= 1
    /\ \A i \in 1..Len(items) : "," \notin RangeOf(items[i])
    /\ Join(items) = s

\* C6: each comma-split variable that is set gives the list of its value's
\* comma-separated items, in order, untrimmed, empty items kept; unset,
\* WEB_CORS_ORIGINS gives ["*"] and DATA_EXPORT_FORMATS ["csv","json","kml"].
C6_CommaSplit ==
    (Ended /\ NumbersValid(env)) =>
        \A v \in ListVariables :
            /\ HasField(v)
            /\ FieldValue(v).t = "list"
            /\ IF v \in DOMAIN env
               THEN IsCommaSplit(FieldValue(v).v, env[v])
               ELSE FieldValue(v) = DocumentedDefault(v)

SixSystems == {"GPS", "GLONASS", "Galileo", "BeiDou", "QZSS", "SBAS"}

\* Override mappings a caller may pass to SatelliteConfig.
Overrides ==
    { EmptyMap,
      ("GPS" :> [enabled |-> FALSE, color |-> "#000000", priority |-> 9,
                 description |-> "override"]) }

\* C7: the registry built with no override holds exactly the six systems,
\* each with enabled, color, priority and description, priorities 1..6, GPS
\* enabled with priority 1 and QZSS disabled with priority 5; built with an
\* override it holds exactly the override.
C7_RegistryDefaults ==
    (Ended /\ NumbersValid(env)) =>
        /\ "satellite_config" \in DOMAIN instances
        /\ instances["satellite_config"]["systems"].t = "dict"
        /\ \E sys \in {instances["satellite_config"]["systems"].v} :
              /\ DOMAIN sys = SixSystems
              /\ \A s \in SixSystems :
                    DOMAIN sys[s] = {"enabled", "color", "priority", "description"}
              /\ \A p \in 1..6 : Cardinality({s \in SixSystems : sys[s].priority = p}) = 1
              /\ sys["GPS"].enabled /\ sys["GPS"].priority = 1
              /\ ~sys["QZSS"].enabled /\ sys["QZSS"].priority = 5
        /\ \A o \in Overrides :
              New("SatelliteConfig", classes["SatelliteConfig"],
                  "systems" :> DictV(o))["systems"] = DictV(o)

\* C8: a second assembly from the same environment agrees with the first:
\* each class, called again with no argument, gives a record equal field for
\* field to the module-level one.
C8_TwoAssembliesAgree ==
    (Ended /\ NumbersValid(env)) =>
        \A c \in 1..Len(ClassNames) :
            /\ InstanceNames[c] \in DOMAIN instances
            /\ New(ClassNames[c], classes[ClassNames[c]], EmptyMap)
                  = instances[InstanceNames[c]]

TimesRead(v) == Cardinality({i \in 1..Len(reads) : reads[i] = v})

\* C10: the load reads every variable of the table exactly once, and once
\* the module is loaded a record of an environment-backed class built with
\* no argument equals the module-level one (construction reads nothing).
C10_EnvironmentReadOnceAtLoad ==
    (Ended /\ NumbersValid(env)) =>
        /\ status = "loaded"
        /\ \A v \in EnvNames : TimesRead(v) = 1
        /\ \A c \in 1..(Len(ClassNames) - 1) :
              New(ClassNames[c], classes[ClassNames[c]], EmptyMap)
                  = instances[InstanceNames[c]]

\* C9 as stated: the key sets of the tables, with eight protocol classes.
KeysAsDocumented(ubx) ==
    /\ DOMAIN tables["GNSS_FIX_QUALITY"] = 0..8
    /\ tables["GNSS_FIX_QUALITY"][4] = "RTK Fixed"
    /\ DOMAIN tables["GNSS_SIGNAL_QUALITY"] = 0..6
    /\ Cardinality(DOMAIN tables["UBX_CLASSES"]) = ubx
    /\ Cardinality(DOMAIN tables["NMEA_SENTENCES"]) = 8
    /\ Cardinality(DOMAIN tables["ERROR_CODES"]) = 8
    /\ Cardinality(DOMAIN tables["STATUS_MESSAGES"]) = 8
    /\ Cardinality(DOMAIN tables["COLORS"]) = 9
    /\ DOMAIN tables["API_RESPONSE"] = {"success", "error"}
    /\ \A k \in DOMAIN tables["API_RESPONSE"] :
          /\ DOMAIN tables["API_RESPONSE"][k] = {"status", "code"}
          /\ tables["API_RESPONSE"][k].status \in STRING
          /\ tables["API_RESPONSE"][k].code \in Int

\* What a subscription returns agrees with the key sets: fix-quality codes
\* 0..8 and signal-quality codes 0..6 are found and no other code is, and
\* fix-quality code 4 gives "RTK Fixed".
LookupsAsDocumented ==
    /\ result.table = "GNSS_FIX_QUALITY" => (result.found <=> result.key \in 0..8)
    /\ result.table = "GNSS_SIGNAL_QUALITY" => (result.found <=> result.key \in 0..6)
    /\ (result.table = "GNSS_FIX_QUALITY" /\ result.key = 4) =>
          result.value = "RTK Fixed"
    /\ result.table = "API_RESPONSE" =>
          (result.found <=> result.key \in {"success", "error"})

\* C9 (original): ... the protocol-class table has exactly 8 entries ...
C9_TablesAsStated == ConstantsLoaded => KeysAsDocumented(8)

\* C9 (amended): the fix-quality table has exactly the keys 0..8 with code 4
\* mapped to "RTK Fixed", the signal-quality table exactly the keys 0..6, the
\* protocol-class table exactly 12 entries, the sentence-type, error-code
\* and status-message tables 8 entries each, the UI color table 9, and the
\* API-response table exactly success and error, each with a status string
\* and a numeric code; subscriptions find exactly those keys.
C9_TablesAsFound ==
    ConstantsLoaded => (KeysAsDocumented(12) /\ LookupsAsDocumented)

\* C9's case: the tables are loaded and fix-quality code 4 has been looked
\* up and gave "RTK Fixed".
C9_Witness ==
    /\ ConstantsLoaded
    /\ result.table = "GNSS_FIX_QUALITY"
    /\ result.found
    /\ result.key = 4
    /\ result.value = "RTK Fixed"

====
